---------------------------- MODULE Spec2Model ----------------------------
(***************************************************************************)
(* A model of the Chemical Guys SDS downloader (src/main.go, the revision  *)
(* at lines 523-709): main fetches one page, ExtractURLsFromHTMLFile       *)
(* recovers the links, downloadPDF saves each link into the folder PDFs.   *)
(*                                                                         *)
(* Text is a sequence of one-character strings, so the regular expression, *)
(* url.Parse, path.Base and the strings functions act on characters.       *)
(***************************************************************************)
EXTENDS Integers, Sequences, FiniteSets, TLC

(***************************************************************************)
(* Characters and the strings package.                                     *)
(***************************************************************************)
DQ == "\""
SQ == "'"

UpperChars == <<"A","B","C","D","E","F","G","H","I","J","K","L","M",
                "N","O","P","Q","R","S","T","U","V","W","X","Y","Z">>
LowerChars == <<"a","b","c","d","e","f","g","h","i","j","k","l","m",
                "n","o","p","q","r","s","t","u","v","w","x","y","z">>
Digits == {"0","1","2","3","4","5","6","7","8","9"}
Letters == {UpperChars[i] : i \in 1..26} \cup {LowerChars[i] : i \in 1..26}
HexDigits == Digits \cup {"a","b","c","d","e","f","A","B","C","D","E","F"}

\* strings.HasPrefix(SubSeq(s, i, Len(s)), p)
HasPrefixAt(s, i, p) ==
    /\ i >= 1
    /\ i + Len(p) - 1 <= Len(s)
    /\ \A k \in 1..Len(p) : s[i + k - 1] = p[k]

HasPrefix(s, p) == HasPrefixAt(s, 1, p)

\* strings.Contains(s, sub)
Contains(s, sub) == \E i \in 1..(Len(s) + 1) : HasPrefixAt(s, i, sub)

\* strings.Index of a single character, 0 when absent
IndexOf(s, c) ==
    IF \E i \in 1..Len(s) : s[i] = c
    THEN CHOOSE i \in 1..Len(s) : s[i] = c /\ \A k \in 1..(i - 1) : s[k] # c
    ELSE 0

\* strings.LastIndex of a single character, 0 when absent
LastIndexOf(s, c) ==
    IF \E i \in 1..Len(s) : s[i] = c
    THEN CHOOSE i \in 1..Len(s) : s[i] = c /\ \A k \in (i + 1)..Len(s) : s[k] # c
    ELSE 0

\* strings.ReplaceAll(s, " ", "_")
ReplaceSpaces(s) == [i \in 1..Len(s) |-> IF s[i] = " " THEN "_" ELSE s[i]]

ToLowerChar(c) ==
    IF \E i \in 1..26 : UpperChars[i] = c
    THEN LowerChars[CHOOSE i \in 1..26 : UpperChars[i] = c]
    ELSE c

\* strings.ToLower(s)
ToLower(s) == [i \in 1..Len(s) |-> ToLowerChar(s[i])]

(***************************************************************************)
(* The regular expression of ExtractURLsFromHTMLFile:                      *)
(*   (?:href|src)=["'](https?:\/\/|\/\/)?([^"']+)["']                      *)
(* matched as Go's regexp does: leftmost match, the first alternative and  *)
(* the greedy repetition preferred, matches not overlapping.               *)
(***************************************************************************)
IsQuote(c) == c \in {DQ, SQ}

\* (?:href|src): the length of the attribute name at i, 0 when none
AttrLen(s, i) ==
    IF HasPrefixAt(s, i, <<"h","r","e","f">>) THEN 4
    ELSE IF HasPrefixAt(s, i, <<"s","r","c">>) THEN 3
    ELSE 0

\* (https?:\/\/|\/\/): the length of the scheme group at j, 0 when none
SchemeLen(s, j) ==
    IF HasPrefixAt(s, j, <<"h","t","t","p","s",":","/","/">>) THEN 8
    ELSE IF HasPrefixAt(s, j, <<"h","t","t","p",":","/","/">>) THEN 7
    ELSE IF HasPrefixAt(s, j, <<"/","/">>) THEN 2
    ELSE 0

\* [^"']+ taken greedily from j: the position of the first quote at or
\* after j, Len(s) + 1 when there is none
RunEnd(s, j) ==
    IF \E k \in j..Len(s) : IsQuote(s[k])
    THEN CHOOSE k \in j..Len(s) : IsQuote(s[k]) /\ \A m \in j..(k - 1) : ~IsQuote(s[m])
    ELSE Len(s) + 1

NoMatch == [ok |-> FALSE, scheme |-> <<>>, path |-> <<>>, open |-> "", close |-> "", end |-> 0]

\* One match of the expression starting exactly at i: match[1] is scheme,
\* match[2] is path; open and close are the two quote characters matched.
MatchAt(s, i) ==
    LET a == AttrLen(s, i)
        j == i + a + 2
        sl == SchemeLen(s, j)
        e1 == RunEnd(s, j + sl)
        e0 == RunEnd(s, j)
    IN  IF ~(a > 0 /\ j - 1 <= Len(s) /\ s[i + a] = "=" /\ IsQuote(s[j - 1]))
        THEN NoMatch
        ELSE IF sl > 0 /\ e1 > j + sl /\ e1 <= Len(s)
        THEN [ok |-> TRUE, scheme |-> SubSeq(s, j, j + sl - 1),
              path |-> SubSeq(s, j + sl, e1 - 1),
              open |-> s[j - 1], close |-> s[e1], end |-> e1]
        ELSE IF e0 > j /\ e0 <= Len(s)
        THEN [ok |-> TRUE, scheme |-> <<>>,
              path |-> SubSeq(s, j, e0 - 1),
              open |-> s[j - 1], close |-> s[e0], end |-> e0]
        ELSE NoMatch

\* urlRegex.FindAllStringSubmatch(content, -1), searching from position i
RECURSIVE FindAllFrom(_, _)
FindAllFrom(s, i) ==
    IF i > Len(s) THEN <<>>
    ELSE LET m == MatchAt(s, i)
         IN  IF m.ok THEN <<m>> \o FindAllFrom(s, m.end + 1)
             ELSE FindAllFrom(s, i + 1)

FindAllStringSubmatch(s) == FindAllFrom(s, 1)

HTTP == <<"h","t","t","p">>
HTTPS_SLASHES == <<"h","t","t","p","s",":","/","/">>
DOT_PDF == <<".","p","d","f">>

\* The URL the loop body reconstructs from one match
FullURL(m) ==
    IF HasPrefix(m.scheme, HTTP) THEN m.scheme \o m.path
    ELSE IF m.scheme = <<"/","/">> THEN HTTPS_SLASHES \o m.path
    ELSE m.path

\* a filter on the end of the URL in place of the containment test
KeepURL_Suffix(fullURL) ==
    Len(fullURL) >= 4 /\ HasPrefixAt(fullURL, Len(fullURL) - 3, DOT_PDF)

\* The filter of the loop body
KeepURL(fullURL) == Contains(fullURL, DOT_PDF)

\* a loop that appends a URL only when it is not in the result already
RECURSIVE CollectURLs_Dedup(_)
CollectURLs_Dedup(matches) ==
    IF matches = <<>> THEN <<>>
    ELSE LET fullURL == FullURL(Head(matches))
             rest == CollectURLs_Dedup(Tail(matches))
         IN  IF KeepURL(fullURL) /\ fullURL \notin {rest[i] : i \in DOMAIN rest}
             THEN <<fullURL>> \o rest
             ELSE rest

\* The loop over the matches: append in match order
RECURSIVE CollectURLs(_)
CollectURLs(matches) ==
    IF matches = <<>> THEN <<>>
    ELSE LET fullURL == FullURL(Head(matches))
         IN  (IF KeepURL(fullURL) THEN <<fullURL>> ELSE <<>>)
                 \o CollectURLs(Tail(matches))

\* ExtractURLsFromHTMLFile applied to the content of a readable file
ExtractURLs(content) == CollectURLs(FindAllStringSubmatch(content))

(***************************************************************************)
(* getFileNamesFromURLs: url.Parse, path.Base, ReplaceAll, ToLower.        *)
(* url.Parse is modelled for the characters the inputs use: the fragment   *)
(* and query are cut off, the scheme and authority are split from the      *)
(* path, the path is percent-decoded, and the errors of a control          *)
(* character, a missing scheme, a colon in the first segment of a          *)
(* relative path, an invalid host character and a bad escape are kept.     *)
(***************************************************************************)
IsCTL(c) == c \in {"\n", "\t"}

\* the text before the first c (all of s when c is absent)
Before(s, c) == IF IndexOf(s, c) = 0 THEN s ELSE SubSeq(s, 1, IndexOf(s, c) - 1)

\* the text from position i on
From(s, i) == SubSeq(s, i, Len(s))

\* getScheme: the length of the scheme (0: none), or -1 for the error
\* "missing protocol scheme"
SchemeChars == Letters \cup Digits \cup {"+", "-", "."}

SchemeEnd(s) ==
    LET stop == IF \E i \in 1..Len(s) : s[i] \notin SchemeChars
                THEN CHOOSE i \in 1..Len(s) :
                         s[i] \notin SchemeChars /\ \A k \in 1..(i - 1) : s[k] \in SchemeChars
                ELSE 0
    IN  IF s = <<>> THEN 0
        ELSE IF s[1] \in Digits \cup {"+", "-", "."} THEN 0
        ELSE IF stop = 0 THEN 0
        ELSE IF s[stop] # ":" THEN 0
        ELSE IF stop = 1 THEN -1
        ELSE stop - 1

\* the byte a valid escape %ab stands for
Unhex(a, b) ==
    CASE <<a, b>> = <<"2", "0">> -> " "
      [] <<a, b>> \in {<<"2", "F">>, <<"2", "f">>} -> "/"
      [] <<a, b>> = <<"2", "5">> -> "%"
      [] <<a, b>> \in {<<"3", "F">>, <<"3", "f">>} -> "?"
      [] <<a, b>> = <<"2", "3">> -> "#"
      [] <<a, b>> = <<"4", "1">> -> "A"
      [] OTHER -> "%" \o a \o b

\* every % of s is followed by two hexadecimal digits
EscapesOK(s) ==
    \A i \in 1..Len(s) :
        s[i] = "%" => /\ i + 2 <= Len(s)
                      /\ s[i + 1] \in HexDigits
                      /\ s[i + 2] \in HexDigits

\* unescape(s, encodePath) of a string whose escapes are valid
RECURSIVE Unescape(_)
Unescape(s) ==
    IF s = <<>> THEN <<>>
    ELSE IF Head(s) = "%" THEN <<Unhex(s[2], s[3])>> \o Unescape(From(s, 4))
    ELSE <<Head(s)>> \o Unescape(Tail(s))

\* parseHost: the characters of the inputs that a host may not hold (a
\* space; a percent sign, whose escapes a host accepts only for bytes the
\* inputs never use)
HostOK(host) == \A i \in 1..Len(host) : host[i] \notin {" ", "%"}

ParseError == [ok |-> FALSE, Path |-> <<>>]

\* url.Parse(rawURL): ok is err == nil, Path is u.Path
urlParse(rawURL) ==
    LET u == Before(rawURL, "#")
        n == SchemeEnd(u)
        scheme == IF n > 0 THEN SubSeq(u, 1, n) ELSE <<>>
        afterScheme == IF n > 0 THEN From(u, n + 2) ELSE u
        rest == Before(afterScheme, "?")
        hasAuthority ==
            /\ HasPrefix(rest, <<"/", "/">>)
            /\ (scheme # <<>> \/ ~HasPrefix(rest, <<"/", "/", "/">>))
        afterSlashes == From(rest, 3)
        host == Before(afterSlashes, "/")
        rawPath == IF hasAuthority THEN From(afterSlashes, Len(host) + 1) ELSE rest
    IN  IF \E i \in 1..Len(u) : IsCTL(u[i]) THEN ParseError
        ELSE IF ~EscapesOK(From(rawURL, Len(u) + 2)) THEN ParseError   \* the fragment
        ELSE IF n = -1 THEN ParseError
        ELSE IF ~HasPrefix(rest, <<"/">>) /\ scheme # <<>>
        THEN [ok |-> TRUE, Path |-> <<>>]               \* an opaque URL
        ELSE IF ~HasPrefix(rest, <<"/">>) /\ Contains(Before(rest, "/"), <<":">>)
        THEN ParseError
        ELSE IF hasAuthority /\ ~HostOK(host) THEN ParseError
        ELSE IF ~EscapesOK(rawPath) THEN ParseError
        ELSE [ok |-> TRUE, Path |-> Unescape(rawPath)]

\* s without its trailing slashes
RECURSIVE StripTrailingSlashes(_)
StripTrailingSlashes(s) ==
    IF s # <<>> /\ s[Len(s)] = "/" THEN StripTrailingSlashes(SubSeq(s, 1, Len(s) - 1))
    ELSE s

\* the path kept whole in place of its last element
Base_WholePath(p) == IF p = <<>> THEN <<".">> ELSE p

\* path.Base(p)
Base(p) ==
    IF p = <<>> THEN <<".">>
    ELSE LET t == StripTrailingSlashes(p)
             b == From(t, LastIndexOf(t, "/") + 1)
         IN  IF b = <<>> THEN <<"/">> ELSE b

\* the name taken from the whole string in place of the parsed path
getFileNamesFromURLs_Raw(urls) == ToLower(ReplaceSpaces(Base(urls)))

\* getFileNamesFromURLs(urls)
getFileNamesFromURLs(urls) ==
    LET u == urlParse(urls)
    IN  IF ~u.ok THEN <<>>
        ELSE ToLower(ReplaceSpaces(Base(u.Path)))

(***************************************************************************)
(* The inputs.  A tag is the text of one HTML element; a page is the       *)
(* concatenation of at most MaxTags tags (MaxPageTags for the page the     *)
(* network serves to main).                                                *)
(***************************************************************************)
MaxTags == 3
MaxPageTags == 2

RECURSIVE Flat(_)
Flat(ss) == IF ss = <<>> THEN <<>> ELSE Head(ss) \o Flat(Tail(ss))

A_OPEN == <<"<", "a", " ">>
IMG_OPEN == <<"<", "i", "m", "g", " ">>
HREF_EQ == <<"h", "r", "e", "f", "=">>
SRC_EQ == <<"s", "r", "c", "=">>
GT == <<">">>
X_COM == <<"h","t","t","p","s",":","/","/","x",".","c","o","m">>
CDN_X_COM == <<"/","/","c","d","n",".","x",".","c","o","m">>

\* <a href="https://x.com/a.pdf">
TagA == A_OPEN \o HREF_EQ \o <<DQ>> \o X_COM \o <<"/","a",".","p","d","f">> \o <<DQ>> \o GT
\* <img src="//cdn.x.com/b.PDF?query=1">
TagB == IMG_OPEN \o SRC_EQ \o <<DQ>> \o CDN_X_COM
            \o <<"/","b",".","P","D","F","?","q","u","e","r","y","=","1">> \o <<DQ>> \o GT
\* <a href="/rel/c.pdf">
TagC == A_OPEN \o HREF_EQ \o <<DQ>> \o <<"/","r","e","l","/","c",".","p","d","f">> \o <<DQ>> \o GT
\* <a href="/about">
TagAbout == A_OPEN \o HREF_EQ \o <<DQ>> \o <<"/","a","b","o","u","t">> \o <<DQ>> \o GT
\* <a href='https://x.com/v?f=e.pdf&p=1'>
TagQuery == A_OPEN \o HREF_EQ \o <<SQ>> \o X_COM
            \o <<"/","v","?","f","=","e",".","p","d","f","&","p","=","1">> \o <<SQ>> \o GT
\* <a HREF="https://x.com/d.pdf">
TagUpper == A_OPEN \o <<"H","R","E","F","=">> \o <<DQ>> \o X_COM
            \o <<"/","d",".","p","d","f">> \o <<DQ>> \o GT
\* <a href="https://x.com/g.pdf' id="g">
TagMixed == A_OPEN \o HREF_EQ \o <<DQ>> \o X_COM \o <<"/","g",".","p","d","f">> \o <<SQ>>
            \o <<" ","i","d","=">> \o <<DQ, "g", DQ>> \o GT
\* <a href="https://x.com/o'k.pdf">
TagApos == A_OPEN \o HREF_EQ \o <<DQ>> \o X_COM \o <<"/","o">> \o <<SQ>>
            \o <<"k",".","p","d","f">> \o <<DQ>> \o GT
\* <img src="//cdn.x.com/docs/A.pdf">
TagCdnA == IMG_OPEN \o SRC_EQ \o <<DQ>> \o CDN_X_COM
            \o <<"/","d","o","c","s","/","A",".","p","d","f">> \o <<DQ>> \o GT
\* <a href="https://x.com/.pdf/..">
TagDotDot == A_OPEN \o HREF_EQ \o <<DQ>> \o X_COM \o <<"/",".","p","d","f","/",".",".">> \o <<DQ>> \o GT
\* <a href="https://x.pdf">
TagNoPath == A_OPEN \o HREF_EQ \o <<DQ>> \o <<"h","t","t","p","s",":","/","/","x",".","p","d","f">>
            \o <<DQ>> \o GT

\* <a href="https://x.com/docs/e.pdf">
TagE == A_OPEN \o HREF_EQ \o <<DQ>> \o X_COM
            \o <<"/","d","o","c","s","/","e",".","p","d","f">> \o <<DQ>> \o GT
\* <a href="https://x.com/f.pdf#top">
TagF == A_OPEN \o HREF_EQ \o <<DQ>> \o X_COM
            \o <<"/","f",".","p","d","f","#","t","o","p">> \o <<DQ>> \o GT

\* the tags of the pages ExtractURLsFromHTMLFile is applied to on its own
Tags == {TagA, TagB, TagC, TagAbout, TagQuery, TagUpper, TagMixed, TagApos}

\* the tags of the pages the network serves to main
PageTags == {TagA, TagCdnA, TagC}

TagSeqs(tags, max) == UNION {[1..n -> tags] : n \in 0..max}

\* a page of three links with three different file names
ExamplePages == {<<TagA, TagE, TagF>>}

\* the pages the network may serve to main
Pages == TagSeqs(PageTags, MaxPageTags) \cup ExamplePages

(***************************************************************************)
(* The URLs getFileNamesFromURLs is applied to on its own, by component:   *)
(* what precedes the path, the path, the query and the fragment.  Each     *)
(* path is listed with the file name expected of it.                       *)
(***************************************************************************)
HTTPS_EXAMPLE == <<"h","t","t","p","s",":","/","/","e","x","a","m","p","l","e",".","c","o","m">>
HTTP_CDN == <<"h","t","t","p",":","/","/","c","d","n",".","x",".","c","o","m">>
\* https://exa mple.com: a space in the host, which url.Parse rejects
HTTPS_BAD_HOST == <<"h","t","t","p","s",":","/","/","e","x","a"," ","m","p","l","e",".","c","o","m">>

GoodPrefixes == {HTTPS_EXAMPLE, HTTP_CDN, CDN_X_COM, <<>>}
BadPrefixes == {HTTPS_BAD_HOST}

PathCases == {
    \* /docs/My File.pdf
    [path |-> <<"/","d","o","c","s","/","M","y"," ","F","i","l","e",".","p","d","f">>,
     name |-> <<"m","y","_","f","i","l","e",".","p","d","f">>],
    \* /a.pdf
    [path |-> <<"/","a",".","p","d","f">>, name |-> <<"a",".","p","d","f">>],
    \* /A B/C D.PDF
    [path |-> <<"/","A"," ","B","/","C"," ","D",".","P","D","F">>,
     name |-> <<"c","_","d",".","p","d","f">>],
    \* /a%20b.PDF: the path is percent-decoded
    [path |-> <<"/","a","%","2","0","b",".","P","D","F">>,
     name |-> <<"a","_","b",".","p","d","f">>],
    \* /x%2Fy.pdf
    [path |-> <<"/","x","%","2","F","y",".","p","d","f">>, name |-> <<"y",".","p","d","f">>],
    \* /docs/: path.Base drops trailing slashes
    [path |-> <<"/","d","o","c","s","/">>, name |-> <<"d","o","c","s">>],
    \* /docs/..
    [path |-> <<"/","d","o","c","s","/",".",".">>, name |-> <<".",".">>],
    \* the empty path, of which path.Base is "."
    [path |-> <<>>, name |-> <<".">>],
    \* /
    [path |-> <<"/">>, name |-> <<"/">>]}

\* /bad%zz.pdf: an escape url.Parse rejects
BadPaths == {<<"/","b","a","d","%","z","z",".","p","d","f">>}

Queries == {<<>>, <<"?","v","=","2">>, <<"?","f","=","/","X"," ","y",".","P","D","F">>}
Fragments == {<<>>, <<"#","s","/","T",".","p","d","f">>}

URLParts ==
    [prefix : GoodPrefixes \cup BadPrefixes,
     path : {c.path : c \in PathCases} \cup BadPaths,
     query : Queries,
     fragment : Fragments]

RawURL(parts) == parts.prefix \o parts.path \o parts.query \o parts.fragment

(***************************************************************************)
(* The state: the disk, main's locals and position, and what the run has   *)
(* done so far.                                                            *)
(***************************************************************************)
VARIABLES
    pc,         \* the statement main (or the function it called) is at
    snapshot,   \* the file chemical_guys_sds_page.html: [exists, data]
    folder,     \* what is at the path PDFs: "absent", "dir" or "file"
    files,      \* the entries of the directory PDFs: name -> content
    resp,       \* the body of the page response being saved (its tags)
    links,      \* main's links
    idx,        \* the index in links of the iteration of main's loop
    calls,      \* the URLs downloadPDF was called with in this run
    rets,       \* what each of these calls returned
    status,     \* the answer to the GET of the current downloadPDF call
    gets,       \* the GETs downloadPDF issued in this run
    mkdirs,     \* the times os.MkdirAll created the folder in this run
    fetchRet,   \* what downloadFileUsingURLandFilePath returned in this run
    extractErr, \* whether ExtractURLsFromHTMLFile returned an error
    html,       \* the tags of a page ExtractURLsFromHTMLFile is applied to
    urls,       \* what it returned
    rawParts,   \* a URL getFileNamesFromURLs is applied to, by component
    fileName    \* what it returned

vars == <<pc, snapshot, folder, files, resp, links, idx, calls, rets, status,
          gets, mkdirs, fetchRet, extractErr, html, urls, rawParts, fileName>>

diskVars == <<snapshot, folder, files>>
runVars == <<resp, links, idx, calls, rets, status, gets, mkdirs, fetchRet, extractErr>>
pureVars == <<html, urls, rawParts, fileName>>

NoFile == [exists |-> FALSE, data |-> <<>>]
FileOf(data) == [exists |-> TRUE, data |-> data]

\* a directory entry of PDFs that is itself a directory
DirEntry == [dir |-> TRUE, src |-> <<>>, complete |-> FALSE]
\* a regular file holding the body served for src, whole or cut short
FileEntry(src, complete) == [dir |-> FALSE, src |-> src, complete |-> complete]

NoEntries == [n \in {} |-> DirEntry]

\* the answers of a server; 0 stands for a transport error, -1 for no GET
Statuses == {200, 204, 404}
StatusOK == 200

(***************************************************************************)
(* Paths and the file system.  The derived filename holds no slash unless  *)
(* it is "/" itself, so path.Join(folder, fileName) is the working         *)
(* directory (fileName ".."), the folder (fileName "", "." or "/") or a    *)
(* child of the folder.                                                    *)
(***************************************************************************)
Join(elem) ==
    IF elem = <<".", ".">> THEN [kind |-> "cwd", name |-> <<>>]
    ELSE IF elem \in {<<>>, <<".">>, <<"/">>} THEN [kind |-> "folder", name |-> <<>>]
    ELSE [kind |-> "child", name |-> elem]

\* fullPath of downloadPDF
FullPath(pdfURL) == Join(getFileNamesFromURLs(pdfURL))

\* os.Stat(p): "absent" (an error), "dir" or "file"
Stat(p) ==
    IF p.kind = "cwd" THEN "dir"
    ELSE IF p.kind = "folder" THEN folder
    ELSE IF folder = "dir" /\ p.name \in DOMAIN files
         THEN (IF files[p.name].dir THEN "dir" ELSE "file")
         ELSE "absent"

\* the check with the negation of IsDir lost
fileExists_IsDir(p) == Stat(p) # "absent" /\ Stat(p) = "dir"

fileExists(p) == Stat(p) # "absent" /\ Stat(p) # "dir"

directoryExists(p) == Stat(p) # "absent" /\ Stat(p) = "dir"

FolderPath == [kind |-> "folder", name |-> <<>>]

\* os.MkdirAll(folder): what is at the path afterwards; it fails on a
\* regular file and leaves a directory alone
MkdirAll(f) == IF f = "file" THEN "file" ELSE "dir"

\* os.Create(p) succeeds for a child of an existing folder that is not
\* itself a directory
CanCreate(p) == p.kind = "child" /\ folder = "dir" /\ Stat(p) # "dir"

\* http.Get(pdfURL) can only answer for an absolute http(s) URL that
\* parses; for anything else it returns an error
CanAnswer(pdfURL) ==
    /\ \/ HasPrefix(pdfURL, <<"h","t","t","p",":","/","/">>)
       \/ HasPrefix(pdfURL, HTTPS_SLASHES)
    /\ urlParse(pdfURL).ok

GetOutcomes(pdfURL) == IF CanAnswer(pdfURL) THEN {0} \cup Statuses ELSE {0}

(***************************************************************************)
(* main                                                                    *)
(***************************************************************************)
\* createDirectory(folderName, os.ModePerm): os.Mkdir, its error only logged
createDirectory ==
    /\ pc = "start"
    /\ folder' = IF folder = "absent" THEN "dir" ELSE folder
    /\ pc' = "fetch_get"
    /\ UNCHANGED <<snapshot, files, runVars, pureVars>>

\* a fetch that creates the file before the request is made
FetchGet_CreateFirst ==
    /\ pc = "fetch_get"
    /\ snapshot' = FileOf(<<>>)
    /\ \E out \in {0} \cup Statuses :
          IF out = 0
          THEN fetchRet' = "err_get" /\ pc' = "extract" /\ UNCHANGED resp
          ELSE IF out # StatusOK
          THEN fetchRet' = "err_status" /\ pc' = "extract" /\ UNCHANGED resp
          ELSE /\ \E page \in Pages : resp' = page
               /\ pc' = "fetch_create"
               /\ UNCHANGED fetchRet
    /\ UNCHANGED <<folder, files, links, idx, calls, rets, status, gets, mkdirs,
                   extractErr, pureVars>>

\* downloadFileUsingURLandFilePath: http.Get and the status check; main
\* discards the error it returns
FetchGet ==
    /\ pc = "fetch_get"
    /\ \E out \in {0} \cup Statuses :
          IF out = 0
          THEN fetchRet' = "err_get" /\ pc' = "extract" /\ UNCHANGED resp
          ELSE IF out # StatusOK
          THEN fetchRet' = "err_status" /\ pc' = "extract" /\ UNCHANGED resp
          ELSE /\ \E page \in Pages : resp' = page
               /\ pc' = "fetch_create"
               /\ UNCHANGED fetchRet
    /\ UNCHANGED <<diskVars, links, idx, calls, rets, status, gets, mkdirs,
                   extractErr, pureVars>>

\* downloadFileUsingURLandFilePath: os.Create creates or truncates the file
FetchCreate ==
    /\ pc = "fetch_create"
    /\ snapshot' = FileOf(<<>>)
    /\ pc' = "fetch_copy"
    /\ UNCHANGED <<folder, files, runVars, pureVars>>

\* what a copy that fails has written: some tags and, of the next, nothing
\* or its first half
Partials(page) ==
    UNION {{Flat(SubSeq(page, 1, k)) \o SubSeq(page[k + 1], 1, h) :
               h \in {0, Len(page[k + 1]) \div 2}} : k \in 0..(Len(page) - 1)}

\* downloadFileUsingURLandFilePath: io.Copy, whole or failing part-way
FetchCopy ==
    /\ pc = "fetch_copy"
    /\ \/ /\ snapshot' = FileOf(Flat(resp))
          /\ fetchRet' = "nil"
       \/ /\ \E data \in Partials(resp) \cup {<<>>} : snapshot' = FileOf(data)
          /\ fetchRet' = "err_copy"
    /\ resp' = <<>>
    /\ pc' = "extract"
    /\ UNCHANGED <<folder, files, links, idx, calls, rets, status, gets, mkdirs,
                   extractErr, pureVars>>

\* ExtractURLsFromHTMLFile(localURLFilePath): ioutil.ReadFile fails when the
\* file is absent, and main then goes on with no links
ExtractURLsFromHTMLFile ==
    /\ pc = "extract"
    /\ IF snapshot.exists
       THEN links' = ExtractURLs(snapshot.data) /\ extractErr' = FALSE
       ELSE links' = <<>> /\ extractErr' = TRUE
    /\ idx' = 1
    /\ pc' = "loop"
    /\ UNCHANGED <<diskVars, resp, calls, rets, status, gets, mkdirs, fetchRet, pureVars>>

IsError(r) == r \notin {"skipped", "downloaded"}

\* a loop that stops at the first failed download
AfterCall_Break(r) == IF IsError(r) THEN "done" ELSE "loop"

\* where main goes when downloadPDF returned r: it logs and takes the next
\* link, error or not
AfterCall(r) == "loop"

\* downloadPDF returns r to main's loop
Return(r) ==
    /\ rets' = Append(rets, r)
    /\ idx' = idx + 1
    /\ pc' = AfterCall(r)

\* a loop that starts each download without waiting for it to return
downloadPDF_Async ==
    /\ pc = "loop"
    /\ idx <= Len(links)
    /\ calls' = Append(calls, links[idx])
    /\ idx' = idx + 1
    /\ UNCHANGED <<pc, rets, status, diskVars, resp, links, gets, mkdirs, fetchRet,
                   extractErr, pureVars>>

\* the next link of the loop and the start of downloadPDF(link, folderName):
\* the derived path and the fileExists check
downloadPDF ==
    /\ pc = "loop"
    /\ idx <= Len(links)
    /\ calls' = Append(calls, links[idx])
    /\ status' = -1
    /\ IF fileExists(FullPath(links[idx]))
       THEN Return("skipped")
       ELSE pc' = "dl_get" /\ UNCHANGED <<rets, idx>>
    /\ UNCHANGED <<diskVars, resp, links, gets, mkdirs, fetchRet, extractErr, pureVars>>

\* a status check that lets every 2xx answer through
GoodStatus_Any2xx(s) == s >= 200 /\ s <= 299

\* resp.StatusCode != 200 is an error
GoodStatus(s) == s = StatusOK

\* a download that creates the file without creating the folder
AfterGet_NoMkdir == "dl_create"

\* the statement after the status check
AfterGet == "dl_mkdir"

\* downloadPDF: http.Get(pdfURL) and the status check
DlGet ==
    /\ pc = "dl_get"
    /\ gets' = gets + 1
    /\ \E out \in GetOutcomes(links[idx]) :
          /\ status' = out
          /\ IF out = 0 THEN Return("err_get")
             ELSE IF ~GoodStatus(out) THEN Return("err_status")
             ELSE pc' = AfterGet /\ UNCHANGED <<rets, idx>>
    /\ UNCHANGED <<diskVars, resp, links, calls, mkdirs, fetchRet, extractErr, pureVars>>

\* downloadPDF: directoryExists(folder) and os.MkdirAll
DlMkdir ==
    /\ pc = "dl_mkdir"
    /\ IF directoryExists(FolderPath)
       THEN pc' = "dl_create" /\ UNCHANGED <<folder, mkdirs, rets, idx>>
       ELSE IF MkdirAll(folder) = "dir"
       THEN /\ folder' = "dir"
            /\ mkdirs' = mkdirs + 1
            /\ pc' = "dl_create"
            /\ UNCHANGED <<rets, idx>>
       ELSE Return("err_mkdir") /\ UNCHANGED <<folder, mkdirs>>
    /\ UNCHANGED <<snapshot, files, resp, links, calls, status, gets, fetchRet,
                   extractErr, pureVars>>

\* downloadPDF: os.Create(fullPath) leaves an empty file
DlCreate ==
    /\ pc = "dl_create"
    /\ LET p == FullPath(links[idx])
       IN  IF CanCreate(p)
           THEN /\ files' = (p.name :> FileEntry(links[idx], FALSE)) @@ files
                /\ pc' = "dl_copy"
                /\ UNCHANGED <<rets, idx>>
           ELSE Return("err_create") /\ UNCHANGED files
    /\ UNCHANGED <<snapshot, folder, resp, links, calls, status, gets, mkdirs,
                   fetchRet, extractErr, pureVars>>

\* downloadPDF: io.Copy, whole or failing part-way; nothing removes the
\* file a failed copy leaves
DlCopy ==
    /\ pc = "dl_copy"
    /\ LET p == FullPath(links[idx])
       IN  \/ /\ files' = [files EXCEPT ![p.name] = FileEntry(links[idx], TRUE)]
              /\ Return("downloaded")
           \/ /\ UNCHANGED files
              /\ Return("err_copy")
    /\ UNCHANGED <<snapshot, folder, resp, links, calls, status, gets, mkdirs,
                   fetchRet, extractErr, pureVars>>

\* the loop of main is over
MainReturn ==
    /\ pc = "loop"
    /\ idx > Len(links)
    /\ pc' = "done"
    /\ UNCHANGED <<diskVars, runVars, pureVars>>

\* the program is run again on the disk the last run left
RunAgain ==
    /\ pc = "done"
    /\ pc' = "start"
    /\ resp' = <<>>
    /\ links' = <<>>
    /\ idx' = 1
    /\ calls' = <<>>
    /\ rets' = <<>>
    /\ status' = -1
    /\ gets' = 0
    /\ mkdirs' = 0
    /\ fetchRet' = "pending"
    /\ extractErr' = FALSE
    /\ UNCHANGED <<diskVars, pureVars>>

NoParts == [prefix |-> <<>>, path |-> <<>>, query |-> <<>>, fragment |-> <<>>]

\* the locals of a run that has not started
FreshRun ==
    /\ resp = <<>> /\ links = <<>> /\ idx = 1 /\ calls = <<>> /\ rets = <<>>
    /\ status = -1 /\ gets = 0 /\ mkdirs = 0 /\ fetchRet = "pending"
    /\ extractErr = FALSE

\* the name c.pdf
C_PDF == <<"c", ".", "p", "d", "f">>

\* a first run: there is no snapshot; PDFs is absent, a directory (empty or
\* holding a subdirectory c.pdf) or a regular file
Init ==
    /\ pc = "start"
    /\ snapshot = NoFile
    /\ folder \in {"absent", "dir", "file"}
    /\ files \in {NoEntries} \cup (IF folder = "dir" THEN {C_PDF :> DirEntry} ELSE {})
    /\ FreshRun
    /\ html = <<>> /\ urls = <<>> /\ rawParts = NoParts /\ fileName = <<>>

Next ==
    \/ createDirectory
    \/ FetchGet
    \/ FetchCreate
    \/ FetchCopy
    \/ ExtractURLsFromHTMLFile
    \/ downloadPDF
    \/ DlGet
    \/ DlMkdir
    \/ DlCreate
    \/ DlCopy
    \/ MainReturn
    \/ RunAgain

Spec == Init /\ [][Next]_vars

(***************************************************************************)
(* downloadPDF on its own: at most MaxCalls calls, one after the other,    *)
(* with URLs of DownloadURLs, on a disk where PDFs may be absent.          *)
(***************************************************************************)
MaxCalls == 2

URL_CDN_A == HTTPS_SLASHES \o <<"c","d","n",".","x",".","c","o","m">>
                \o <<"/","d","o","c","s","/","A",".","p","d","f">>
URL_DOTDOT == X_COM \o <<"/",".","p","d","f","/",".",".">>
URL_NOPATH == <<"h","t","t","p","s",":","/","/","x",".","p","d","f">>
URL_E == X_COM \o <<"/","d","o","c","s","/","e",".","p","d","f">>

URL_SLASH == X_COM \o <<"/","h",".","p","d","f","/">>
URL_DOT == X_COM \o <<"/",".","p","d","f","/",".">>

DownloadURLs ==
    {X_COM \o <<"/","a",".","p","d","f">>, URL_CDN_A,
     <<"/","r","e","l","/","c",".","p","d","f">>, URL_DOTDOT, URL_NOPATH, URL_E,
     URL_SLASH, URL_DOT}

DownloadInit ==
    /\ pc = "loop"
    /\ snapshot = NoFile
    /\ folder \in {"absent", "dir", "file"}
    /\ files \in {NoEntries} \cup (IF folder = "dir" THEN {C_PDF :> DirEntry} ELSE {})
    /\ links \in UNION {[1..n -> DownloadURLs] : n \in 1..MaxCalls}
    /\ resp = <<>> /\ idx = 1 /\ calls = <<>> /\ rets = <<>>
    /\ status = -1 /\ gets = 0 /\ mkdirs = 0 /\ fetchRet = "pending"
    /\ extractErr = FALSE
    /\ html = <<>> /\ urls = <<>> /\ rawParts = NoParts /\ fileName = <<>>

DownloadNext ==
    \/ downloadPDF
    \/ DlGet
    \/ DlMkdir
    \/ DlCreate
    \/ DlCopy
    \/ MainReturn

SpecDownload == DownloadInit /\ [][DownloadNext]_vars

(***************************************************************************)
(* ExtractURLsFromHTMLFile on its own: every page of at most MaxTags tags. *)
(***************************************************************************)
ExtractInit ==
    /\ pc = "x_call"
    /\ html \in TagSeqs(Tags, MaxTags)
    /\ snapshot = NoFile /\ folder = "absent" /\ files = NoEntries
    /\ FreshRun
    /\ urls = <<>> /\ rawParts = NoParts /\ fileName = <<>>

ExtractCall ==
    /\ pc = "x_call"
    /\ urls' = ExtractURLs(Flat(html))
    /\ pc' = "x_done"
    /\ UNCHANGED <<diskVars, runVars, html, rawParts, fileName>>

SpecExtract == ExtractInit /\ [][ExtractCall]_vars

(***************************************************************************)
(* getFileNamesFromURLs on its own: every URL of URLParts.                 *)
(***************************************************************************)
NameInit ==
    /\ pc = "n_call"
    /\ rawParts \in URLParts
    /\ snapshot = NoFile /\ folder = "absent" /\ files = NoEntries
    /\ FreshRun
    /\ html = <<>> /\ urls = <<>> /\ fileName = <<>>

NameCall ==
    /\ pc = "n_call"
    /\ fileName' = getFileNamesFromURLs(RawURL(rawParts))
    /\ pc' = "n_done"
    /\ UNCHANGED <<diskVars, runVars, html, urls, rawParts>>

SpecName == NameInit /\ [][NameCall]_vars

(***************************************************************************)
(* Properties                                                              *)
(***************************************************************************)
Range(f) == {f[i] : i \in DOMAIN f}

\* the file name the claim gives for a URL built from parts: the one listed
\* for its path, whatever precedes and follows the path; a string url.Parse
\* rejects has no path and gets the empty name
ExpectedName(parts) ==
    IF parts.prefix \in BadPrefixes \/ parts.path \in BadPaths THEN <<>>
    ELSE (CHOOSE c \in PathCases : c.path = parts.path).name

URL_A == X_COM \o <<"/","a",".","p","d","f">>
URL_B == HTTPS_SLASHES \o <<"c","d","n",".","x",".","c","o","m">>
            \o <<"/","b",".","P","D","F","?","q","u","e","r","y","=","1">>
URL_QUERY == X_COM \o <<"/","v","?","f","=","e",".","p","d","f","&","p","=","1">>
REL_C == <<"/","r","e","l","/","c",".","p","d","f">>
ABOUT == <<"/","a","b","o","u","t">>

\* C5: for a page holding <a href="https://x.com/a.pdf">,
\* <img src="//cdn.x.com/b.PDF?query=1"> and <a href="/rel/c.pdf">, the
\* result holds both https://x.com/a.pdf and https://cdn.x.com/b.PDF?query=1.
C5_ExampleBothReturned ==
    (pc = "x_done" /\ {TagA, TagB, TagC} \subseteq Range(html))
        => (URL_A \in Range(urls) /\ URL_B \in Range(urls))

IsAbsoluteURL(u) ==
    HasPrefix(u, <<"h","t","t","p",":","/","/">>) \/ HasPrefix(u, HTTPS_SLASHES)

\* C6: every string ExtractURLsFromHTMLFile returns begins with http:// or
\* https://.
C6_AllAbsolute ==
    pc = "x_done" => \A i \in 1..Len(urls) : IsAbsoluteURL(urls[i])

URL_D == X_COM \o <<"/","d",".","p","d","f">>
URL_G == X_COM \o <<"/","g",".","p","d","f">>
URL_APOS == X_COM \o <<"/","o">> \o <<SQ>> \o <<"k",".","p","d","f">>

\* the URL written in the attribute of a tag
AttrURL(tag) ==
    CASE tag = TagA -> URL_A
      [] tag = TagB -> URL_B
      [] tag = TagC -> REL_C
      [] tag = TagAbout -> ABOUT
      [] tag = TagQuery -> URL_QUERY
      [] tag = TagUpper -> URL_D
      [] tag = TagMixed -> URL_G
      [] tag = TagApos -> URL_APOS

\* C11: the result lists the kept URLs in the order of their tags on the
\* page, and a URL whose tag is on the page k times is in the result k times:
\* the result is the sequence of the URLs of the page's tags, in page order,
\* with the URLs that are not kept at all left out.
C11_OrderAndMultiplicity ==
    pc = "x_done" =>
        LET Kept(u) == u \in Range(urls)
        IN  urls = SelectSeq([i \in 1..Len(html) |-> AttrURL(html[i])], Kept)

\* /rel/c.pdf once and https://x.com/a.pdf twice, in page order
C11_Witness ==
    /\ pc = "x_done"
    /\ html = <<TagA, TagC, TagA>>
    /\ urls = <<URL_A, REL_C, URL_A>>

\* C12: an href or src attribute is recognised whatever the letter case of
\* its name and whichever quote encloses its value, and the value taken is
\* the text between the opening quote and the next quote of the same kind:
\* HREF="https://x.com/d.pdf" and href="https://x.com/o'k.pdf" give their
\* URLs, and every match is closed by the quote that opened it.
C12_AnyCaseMatchingQuote ==
    pc = "x_done" =>
        /\ TagUpper \in Range(html) => URL_D \in Range(urls)
        /\ TagQuery \in Range(html) => URL_QUERY \in Range(urls)
        /\ TagApos \in Range(html) => URL_APOS \in Range(urls)
        /\ \A m \in Range(FindAllStringSubmatch(Flat(html))) : m.open = m.close

Last(s) == s[Len(s)]

\* downloadPDF is being called with links[idx]
Calling == pc = "loop" /\ idx <= Len(links)

\* the call of downloadPDF for links[idx - 1] has just returned
Returned == pc \in {"loop", "done"} /\ idx > 1 /\ Len(rets) = idx - 1

\* C1: when a regular file is at folder/<derived filename> as downloadPDF is
\* called, the call issues no GET, returns nil as skipped and changes nothing
\* on the disk.
C1_ExistingFileSkipped ==
    [][(Calling /\ Stat(FullPath(links[idx])) = "file")
          => /\ rets' = Append(rets, "skipped")
             /\ gets' = gets
             /\ diskVars' = diskVars]_vars

\* a second call for a name the first call downloaded was skipped, with the
\* one GET of the first call and the file whole
C1_Witness ==
    /\ Returned
    /\ rets = <<"downloaded", "skipped">>
    /\ gets = 1
    /\ Stat(FullPath(links[2])) = "file"
    /\ files[FullPath(links[2]).name].complete

\* C2: main calls downloadPDF once for every link, in order, whatever the
\* earlier calls returned, and only then returns.
C2_EveryLinkAttempted ==
    /\ pc \in {"loop", "dl_get", "dl_mkdir", "dl_create", "dl_copy"}
          => (Len(calls) <= Len(links) /\ calls = SubSeq(links, 1, Len(calls)))
    /\ pc = "done" => (calls = links /\ Len(rets) = Len(links))

\* of three links the second got a bad status and the first and third were
\* downloaded
C2_Witness ==
    /\ pc = "done"
    /\ Len(links) = 3
    /\ rets = <<"downloaded", "err_status", "downloaded">>

\* C3: when the page fetch fails with a transport error or a status other
\* than 200, or the extraction fails, downloadPDF is not called in that run.
C3_FetchFailureAborts ==
    (fetchRet \in {"err_get", "err_status"} \/ extractErr) => calls = <<>>

\* C7: when the GET of downloadPDF fails or is answered with a status other
\* than 200, the call returns an error and the disk is left as it was.
C7_BadStatusNoFile ==
    [][(pc = "dl_get" /\ status' # StatusOK)
          => /\ Len(rets') = Len(rets) + 1
             /\ IsError(Last(rets'))
             /\ diskVars' = diskVars]_vars

\* a GET answered 204 returned an error and there is no file at the path
C7_Witness ==
    /\ Returned
    /\ status = 204
    /\ Last(rets) = "err_status"
    /\ Stat(FullPath(links[idx - 1])) = "absent"

\* C8: downloadPDF returns nil for a download only when the file is whole,
\* and never skips a URL on the file a failed copy of that URL left.
C8_NoSkipOnPartialFile ==
    (Returned /\ FullPath(links[idx - 1]).kind = "child"
        /\ FullPath(links[idx - 1]).name \in DOMAIN files
        /\ files[FullPath(links[idx - 1]).name].src = links[idx - 1])
      => /\ Last(rets) = "downloaded" => files[FullPath(links[idx - 1]).name].complete
         /\ Last(rets) = "skipped" => files[FullPath(links[idx - 1]).name].complete

\* C9: a file is created or written only in a folder that already exists; a
\* download answered 200 leaves a folder that was absent created; and a call
\* fails on folder creation only when the path is not a directory.
C9_FolderBeforeFile ==
    [][/\ files' # files => folder = "dir"
       /\ (Len(rets') > Len(rets) /\ status' = StatusOK) => folder' # "absent"
       /\ (Len(rets') > Len(rets) /\ Last(rets') = "err_mkdir") => folder # "dir"]_vars

\* the first call created the folder and downloaded, and the second call,
\* with the folder there, went through to its own download
C9_Witness ==
    /\ Returned
    /\ mkdirs = 1
    /\ rets = <<"downloaded", "downloaded">>
    /\ folder = "dir"

\* the positions of main before, in and after the page fetch
BeforeExtract == {"start", "fetch_get", "fetch_create", "fetch_copy"}
InDownload == {"dl_get", "dl_mkdir", "dl_create", "dl_copy"}

\* the calls of downloadPDF that have started and not returned
InProgress == Len(calls) - Len(rets)

\* C13: the run is sequential.  Until the page fetch has returned nothing is
\* extracted, and until the extraction has returned no download has started
\* and no GET of a download was issued; downloads start in the order of the
\* extracted links; a download has started and not returned exactly while
\* main is inside downloadPDF, so at most one is in progress, and each call
\* issues at most one GET.
C13_StrictlySequential ==
    /\ pc \in BeforeExtract => (fetchRet = "pending" /\ links = <<>>)
    /\ pc \notin BeforeExtract => fetchRet # "pending"
    /\ pc \in BeforeExtract \cup {"extract"} => (calls = <<>> /\ gets = 0)
    /\ Len(calls) <= Len(links) /\ calls = SubSeq(links, 1, Len(calls))
    /\ InProgress = IF pc \in InDownload THEN 1 ELSE 0
    /\ gets <= Len(calls)

\* the second download is copying after the first has returned: two calls,
\* one return, two GETs
C13_Witness ==
    /\ pc = "dl_copy"
    /\ fetchRet = "nil"
    /\ Len(calls) = 2
    /\ rets = <<"downloaded">>
    /\ gets = 2

A_PDF == <<"a", ".", "p", "d", "f">>

\* links i and j of the run are different URLs with the same derived file name
Collide(i, j) ==
    /\ links[i] # links[j]
    /\ getFileNamesFromURLs(links[i]) = getFileNamesFromURLs(links[j])

\* the number of calls of the run that returned something other than skipped
NotSkipped == Cardinality({k \in 1..Len(rets) : rets[k] # "skipped"})

\* C14: when two different links of a run derive the same file name and the
\* call for the earlier one downloaded the file, the call for the later one
\* returns skipped and the file holds, whole, the content of the earlier
\* link; skipped calls issue no GET, so the GETs of the run are those of the
\* calls not skipped.
C14_FirstSuccessfulSurvives ==
    /\ \A j \in 1..Len(rets) : \A i \in 1..(j - 1) :
          (rets[i] = "downloaded" /\ Collide(i, j))
             => /\ rets[j] = "skipped"
                /\ files[getFileNamesFromURLs(links[i])] = FileEntry(links[i], TRUE)
    /\ gets = NotSkipped + (IF pc \in {"dl_mkdir", "dl_create", "dl_copy"} THEN 1 ELSE 0)

\* https://x.com/a.pdf was downloaded and https://cdn.x.com/docs/A.pdf, which
\* derives a.pdf too, was skipped: one GET, and a.pdf holds the first link
C14_Witness ==
    /\ pc = "done"
    /\ links = <<URL_A, URL_CDN_A>>
    /\ rets = <<"downloaded", "skipped">>
    /\ gets = 1
    /\ files[A_PDF] = FileEntry(URL_A, TRUE)

H_PDF == <<"h", ".", "p", "d", "f">>

\* n names a direct child of a folder: not empty, no slash, not . or ..
DirectChildName(n) ==
    /\ n # <<>>
    /\ ~Contains(n, <<"/">>)
    /\ n \notin {<<".">>, <<".", ".">>}

\* the names of the folder whose entry a step has added or changed
Touched == {n \in DOMAIN files' : n \notin DOMAIN files \/ files'[n] # files[n]}

\* C15: a step of downloadPDF creates or writes only a direct child of the
\* destination folder, named by the file name derived from the URL; it
\* removes nothing and leaves the snapshot in the working directory alone;
\* and os.Create on a path that is not a child of the folder (the folder
\* itself for an empty path or a last element ".", the working directory for
\* "..") fails with the disk unchanged.
C15_OnlyDirectChildren ==
    [][/\ snapshot' = snapshot
       /\ DOMAIN files \subseteq DOMAIN files'
       /\ \A n \in Touched :
             /\ DirectChildName(n)
             /\ n = getFileNamesFromURLs(links[idx])
             /\ folder = "dir" /\ folder' = "dir"
       /\ (pc = "dl_create" /\ ~DirectChildName(getFileNamesFromURLs(links[idx])))
             => (Last(rets') = "err_create" /\ diskVars' = diskVars)]_vars

\* https://x.com/.pdf/.. got as far as os.Create and failed, and
\* https://x.com/h.pdf/ was downloaded to h.pdf, the only entry of the folder
C15_Witness ==
    /\ Returned
    /\ links = <<URL_DOTDOT, URL_SLASH>>
    /\ rets = <<"err_create", "downloaded">>
    /\ folder = "dir"
    /\ DOMAIN files = {H_PDF}
    /\ files[H_PDF] = FileEntry(URL_SLASH, TRUE)

\* C16: when the GET of downloadFileUsingURLandFilePath fails or is answered
\* with a status other than 200, the function returns an error with the disk
\* as it was: the snapshot is neither created nor truncated.  The function
\* returns from its GET step only with such an error.
C16_FailedFetchKeepsSnapshot ==
    [][/\ (pc = "fetch_get" /\ fetchRet' \in {"err_get", "err_status"})
             => (pc' = "extract" /\ diskVars' = diskVars)
       /\ (pc = "fetch_get" /\ pc' = "extract")
             => fetchRet' \in {"err_get", "err_status"}
       /\ (pc = "fetch_get" /\ fetchRet' = "pending")
             => (pc' = "fetch_create" /\ diskVars' = diskVars)]_vars

\* a later run's fetch was answered with an error and the snapshot still
\* holds the page an earlier run saved
C16_Witness ==
    /\ pc = "extract"
    /\ fetchRet = "err_status"
    /\ snapshot = FileOf(Flat(<<TagA, TagC>>))

=============================================================================
